---- MODULE Spec2Model ----
(***************************************************************************)
(* Model of provisioner/aws_ec2_provisioning.py: the EC2Provisioner class. *)
(*                                                                         *)
(* A "unit" is one unit of work handed to a worker: one run of             *)
(* provision_instance on one config, or one run of terminate_instance on   *)
(* one instance id.  Units are numbered by their position in the caller's  *)
(* list.  Every call of the EC2 API is a step that either returns or       *)
(* raises; which of the two is chosen nondeterministically.                *)
(***************************************************************************)
EXTENDS Integers, Sequences, FiniteSets, TLC

(***************************************************************************)
(* Bounds of the model.                                                    *)
(***************************************************************************)
MaxRetries == 3        \* largest spot_max_retries of a directly called acquisition
MaxSpecs == 2          \* longest list handed to provision_instances_parallel
MaxWorkers == 2        \* largest max_workers
MaxIds == 3            \* longest list handed to cleanup_instances
MaxApplications == 2   \* most successive applications of _set_defaults

(***************************************************************************)
(* Program constants.                                                      *)
(***************************************************************************)
DefaultMaxRetries == 3     \* EC2InstanceConfig.spot_max_retries
DefaultRetryDelay == 30    \* EC2InstanceConfig.spot_retry_delay
BackoffCap == 120          \* min(retry_delay * 2, 120)

VARIABLES
    op,            \* which entry point runs: "direct", "provision" or "cleanup"
    max_workers,   \* self.max_workers
    configs,       \* the caller's list of EC2InstanceConfig (never written)
    instance_ids,  \* the caller's list of instance ids (cleanup)
    pc,            \* pc[i]: position of unit i
    config,        \* config[i]: provision_instance's local `config`
    attempt,       \* attempt[i]: loop variable of _launch_spot_instance
    retry_delay,   \* retry_delay[i]
    spot_request_id, \* spot_request_id[i]: NoId while the local is unbound
    instance_id,   \* instance_id[i]
    err,           \* err[i]: the exception in flight / bound to `e`
    ret,           \* ret[i]: what the unit returned
    requests,      \* requests[i][k]: remote state of the k-th spot request of unit i
    instances,     \* instances[i]: number of instances allocated for unit i
    log,           \* log[i]: the external calls unit i made, in order
    main,          \* position of the calling thread
    submitted,     \* number of units submitted to the executor
    queue,         \* executor work queue (unit numbers, FIFO)
    running,       \* units being executed by a worker thread
    finished,      \* units whose future is done, in completion order
    pending,       \* as_completed: futures not yet yielded
    early,         \* as_completed: futures found finished when it was called
    results,       \* provision_instances_parallel's `results` list
    cleanup_results, \* cleanup_instances' `results` dict
    report,        \* the file provisioning_results.json written by main()
    defaulted      \* the configs successive calls of _set_defaults returned

vars == <<op, max_workers, configs, instance_ids, pc, config, attempt,
          retry_delay, spot_request_id, instance_id, err, ret, requests,
          instances, log, main, submitted, queue, running, finished,
          pending, early, results, cleanup_results, report, defaulted>>

acqVars == <<config, attempt, retry_delay, spot_request_id, instance_id,
             err, requests, instances, log>>
inputVars == <<op, max_workers, configs, instance_ids>>
fileVars == <<report, defaulted>>

(***************************************************************************)
(* Values.                                                                 *)
(***************************************************************************)
NoId == <<>>           \* an id that is absent / a local that is unbound
NoName == <<>>         \* name=None
NoErr == [kind |-> "", attempts |-> 0, last |-> ""]
NoReport == <<"no file">>   \* provisioning_results.json does not exist
Times == {1, 2}        \* values of int(time.time())
Delays == {-1, 0, DefaultRetryDelay, 100, BackoffCap, 200}

\* An exception raised by an external call: str(e) names the call.
ApiError(call) == [kind |-> call, attempts |-> 0, last |-> ""]

\* Exception(f"All {max_retries} spot instance attempts failed ... Last error: {str(e)}")
AllAttemptsFailed(n, e) == [kind |-> "AllAttemptsFailed", attempts |-> n, last |-> e.kind]

\* time.sleep raises ValueError for a negative length
SleepError == ApiError("sleep length must be non-negative")

\* result['status'] on a value that is not a dict
TypeError == ApiError("TypeError")

Min(a, b) == IF a < b THEN a ELSE b

NumUnits == IF op = "cleanup" THEN Len(instance_ids) ELSE Len(configs)
Units == 1..NumUnits

(***************************************************************************)
(* EC2InstanceConfig and _set_defaults.                                    *)
(***************************************************************************)
DefaultImageId == "ami-0ae8595e2aff47037"

EC2InstanceConfig(name, image, tags, spot, retries, delay) ==
    [instance_type |-> "t3.micro", name |-> name, image_id |-> image,
     tags |-> tags, spot_instance |-> spot, spot_max_retries |-> retries,
     spot_retry_delay |-> delay]

DefaultTags(c) ==
    {<<"Environment", "Development">>, <<"Project", "AutoProvisioned">>,
     <<"InstanceType", IF c.spot_instance THEN "Spot" ELSE "OnDemand">>}

\* faulty variant of set_defaults: the name is generated whether or not the
\* config has one
C15_AlwaysRenames(c, t) ==
    [c EXCEPT !.name = <<c.instance_type, t>>,
              !.image_id = IF c.image_id = "" THEN DefaultImageId ELSE c.image_id,
              !.tags = IF c.tags = {} THEN DefaultTags(c) ELSE c.tags]

\* _set_defaults works on a deep copy; t is int(time.time()).  A field that
\* is None or empty counts as not provided (`if not config.name`).
set_defaults(c, t) ==
    [c EXCEPT !.name = IF c.name = NoName THEN <<c.instance_type, t>> ELSE c.name,
              !.image_id = IF c.image_id = "" THEN DefaultImageId ELSE c.image_id,
              !.tags = IF c.tags = {} THEN DefaultTags(c) ELSE c.tags]

\* faulty variant of CallerConfig: _set_defaults fills in the caller's own
\* object
C16_FilledInPlace(c, d) == d

\* line 359: the caller's object c after _set_defaults returned d; the
\* defaults were written to a deep copy, so it is what it was
CallerConfig(c, d) == c

(***************************************************************************)
(* Values a unit returns.                                                  *)
(***************************************************************************)
\* the dict built by _finalize_instance
SuccessResult(c, iid, kind) ==
    [kind |-> "dict", name |-> c.name, status |-> "success", instance_id |-> iid,
     instance_type |-> kind, spot_request_id |-> NoId, error |-> NoErr]

\* the dict built by the except clauses
FailedResult(c, e) ==
    [kind |-> "dict", name |-> c.name, status |-> "failed", instance_id |-> NoId,
     instance_type |-> "", spot_request_id |-> NoId, error |-> e]

\* Python's None: what a function returns when it falls off its end
NoneResult ==
    [kind |-> "None", name |-> NoName, status |-> "", instance_id |-> NoId,
     instance_type |-> "", spot_request_id |-> NoId, error |-> NoErr]

\* terminate_instance returns a bool
BoolResult(b) ==
    [kind |-> "bool", name |-> NoName, status |-> IF b THEN "True" ELSE "False",
     instance_id |-> NoId, instance_type |-> "", spot_request_id |-> NoId,
     error |-> NoErr]

(***************************************************************************)
(* The record of an external call.                                         *)
(***************************************************************************)
Call(name, a, id, ok, d) ==
    [call |-> name, attempt |-> a, id |-> id, ok |-> ok, delay |-> d]

\* The calls are recorded for a directly called acquisition and for the
\* terminations of a cleanup; the units of a batch run unrecorded.
Traced == op # "provision"

Record(i, c) == IF Traced THEN [log EXCEPT ![i] = Append(@, c)] ELSE log

Logged(i, name, id, ok) == Record(i, Call(name, attempt[i], id, ok, 0))

(***************************************************************************)
(* provision_instance and the functions it calls, for unit i.              *)
(*                                                                         *)
(* A step is one call of the EC2 API (or one sleep) together with the      *)
(* code that follows it up to the next such call; that code touches only   *)
(* the unit's own locals.  pc[i] names the call unit i is about to make.   *)
(***************************************************************************)
\* the unit goes on to its next call
Continue(i, where) ==
    /\ pc' = [pc EXCEPT ![i] = where]
    /\ UNCHANGED <<ret, running, finished>>

\* the unit returns v: its future is done and its thread is free
Finish(i, v) ==
    /\ ret' = [ret EXCEPT ![i] = v]
    /\ pc' = [pc EXCEPT ![i] = "done"]
    /\ running' = running \ {i}
    /\ finished' = Append(finished, i)

\* faulty variant of HasNextAttempt: the loop runs one iteration too many
C6_OneAttemptMore(a, c) == a <= c.spot_max_retries

\* for attempt in range(max_retries): is there an iteration for attempt a?
HasNextAttempt(a, c) == a < c.spot_max_retries

\* faulty variant of SpotRequestIdBound: a failed request is never cancelled
C4_NeverBound(i) == FALSE

\* if 'spot_request_id' in locals():
SpotRequestIdBound(i) == spot_request_id[i] # NoId

\* faulty variant of IsLastAttempt: no attempt is taken for the last one
C22_NeverLast(i) == FALSE

\* faulty variant of IsLastAttempt: the loop gives up one attempt early
C21_GivesUpEarly(i) == attempt[i] >= config[i].spot_max_retries - 2

\* if attempt == max_retries - 1:
IsLastAttempt(i) == attempt[i] = config[i].spot_max_retries - 1

\* faulty variant of NextDelay: the doubling is not capped
C5_DoubleUncapped(d) == d * 2

\* retry_delay = min(retry_delay * 2, 120)
NextDelay(d) == Min(d * 2, BackoffCap)

\* time.sleep(d) raises ValueError when d is negative
SleepRaises(d) == d < 0

\* faulty variant of InRetryLoop: an on-demand failure enters the retry handler
C8_AlwaysInRetryLoop(i) == TRUE

\* The launch steps of a spot config run inside the try of the retry loop
\* (lines 199-254); those of an on-demand config run outside any loop.
InRetryLoop(i) == config[i].spot_instance

\* line 198, entered for attempt a with config c: run the iteration, or
\* fall off the end of _launch_spot_instance, which returns None
LoopHead(i, a, c) ==
    IF HasNextAttempt(a, c) THEN Continue(i, "request") ELSE Finish(i, NoneResult)

\* lines 159-166: provision_instance turns the exception e into a failed result
Except(i, e) ==
    /\ err' = [err EXCEPT ![i] = e]
    /\ Finish(i, FailedResult(config[i], e))

\* lines 268-274, after the cancellation: raise on the last attempt, else
\* go on to sleep
AfterCancel(i, e) ==
    IF IsLastAttempt(i)
    THEN Except(i, AllAttemptsFailed(config[i].spot_max_retries, e))
    ELSE /\ err' = [err EXCEPT ![i] = e]
         /\ Continue(i, "sleep")

\* faulty variant of Raise: the exception is swallowed and the launch goes on
\* to finalizing
C18_FallsThrough(i, e) ==
    /\ err' = [err EXCEPT ![i] = e]
    /\ Continue(i, "finalize")

\* A launch step raised e.  In the retry loop the except clause of line 254
\* catches it and cancels the spot request if the local is bound; elsewhere
\* the exception reaches provision_instance's except clause.
Raise(i, e) ==
    IF InRetryLoop(i)
    THEN IF SpotRequestIdBound(i)
         THEN /\ err' = [err EXCEPT ![i] = e]
              /\ Continue(i, "cancel")
         ELSE AfterCancel(i, e)
    ELSE Except(i, e)

mainVars == <<main, submitted, queue, pending, early, results, cleanup_results>>

\* lines 124-157 and 195-198: fill in the defaults, choose the launch path
provision_instance(i) ==
    /\ pc[i] = "start"
    /\ \E t \in Times :
         LET c == set_defaults(configs[i], t) IN
         /\ config' = [config EXCEPT ![i] = c]
         /\ configs' = [configs EXCEPT ![i] = CallerConfig(@, c)]
         /\ retry_delay' = [retry_delay EXCEPT ![i] =
                IF c.spot_instance THEN c.spot_retry_delay ELSE @]
         /\ IF c.spot_instance
            THEN LoopHead(i, 0, c)
            ELSE Continue(i, "run_instances")
    /\ UNCHANGED <<attempt, spot_request_id, instance_id, err, requests,
                   instances, log>>
    /\ UNCHANGED <<op, max_workers, instance_ids, mainVars, fileVars>>

\* lines 217-218
request_spot_instances(i) ==
    /\ pc[i] = "request"
    /\ LET id == <<"sir", i, Len(requests[i]) + 1>> IN
       \/ /\ requests' = [requests EXCEPT ![i] = Append(@, "open")]
          /\ spot_request_id' = [spot_request_id EXCEPT ![i] = id]
          /\ log' = Logged(i, "request_spot_instances", id, TRUE)
          /\ Continue(i, "wait_fulfilled")
          /\ err' = err
       \/ /\ Raise(i, ApiError("request_spot_instances"))
          /\ log' = Logged(i, "request_spot_instances", NoId, FALSE)
          /\ UNCHANGED <<requests, spot_request_id>>
    /\ UNCHANGED <<config, attempt, retry_delay, instance_id, instances>>
    /\ UNCHANGED <<inputVars, mainVars, fileVars>>

\* lines 222-223: the waiter returns once the request is fulfilled, which
\* allocates an instance
wait_spot_fulfilled(i) ==
    /\ pc[i] = "wait_fulfilled"
    /\ \/ /\ requests' = [requests EXCEPT ![i][spot_request_id[i][3]] = "fulfilled"]
          /\ instances' = [instances EXCEPT ![i] = @ + 1]
          /\ log' = Logged(i, "wait_spot_fulfilled", spot_request_id[i], TRUE)
          /\ Continue(i, "describe_request")
          /\ err' = err
       \/ /\ Raise(i, ApiError("wait_spot_fulfilled"))
          /\ log' = Logged(i, "wait_spot_fulfilled", spot_request_id[i], FALSE)
          /\ UNCHANGED <<requests, instances>>
    /\ UNCHANGED <<config, attempt, retry_delay, spot_request_id, instance_id>>
    /\ UNCHANGED <<inputVars, mainVars, fileVars>>

\* lines 226-230
describe_spot_instance_requests(i) ==
    /\ pc[i] = "describe_request"
    /\ \/ /\ instance_id' = [instance_id EXCEPT ![i] = <<"i", i, instances[i]>>]
          /\ log' = Logged(i, "describe_spot_instance_requests", spot_request_id[i], TRUE)
          /\ Continue(i, "wait_running")
          /\ err' = err
       \/ /\ Raise(i, ApiError("describe_spot_instance_requests"))
          /\ log' = Logged(i, "describe_spot_instance_requests", spot_request_id[i], FALSE)
          /\ instance_id' = instance_id
    /\ UNCHANGED <<config, attempt, retry_delay, spot_request_id, requests, instances>>
    /\ UNCHANGED <<inputVars, mainVars, fileVars>>

\* lines 182-183
run_instances(i) ==
    /\ pc[i] = "run_instances"
    /\ \/ /\ instances' = [instances EXCEPT ![i] = @ + 1]
          /\ instance_id' = [instance_id EXCEPT ![i] = <<"i", i, instances[i] + 1>>]
          /\ log' = Logged(i, "run_instances", <<"i", i, instances[i] + 1>>, TRUE)
          /\ Continue(i, "wait_running")
          /\ err' = err
       \/ /\ Raise(i, ApiError("run_instances"))
          /\ log' = Logged(i, "run_instances", NoId, FALSE)
          /\ UNCHANGED <<instances, instance_id>>
    /\ UNCHANGED <<config, attempt, retry_delay, spot_request_id, requests>>
    /\ UNCHANGED <<inputVars, mainVars, fileVars>>

\* lines 187-188 and 234-235
wait_instance_running(i) ==
    /\ pc[i] = "wait_running"
    /\ \/ /\ log' = Logged(i, "wait_instance_running", instance_id[i], TRUE)
          /\ Continue(i, "finalize")
          /\ err' = err
       \/ /\ Raise(i, ApiError("wait_instance_running"))
          /\ log' = Logged(i, "wait_instance_running", instance_id[i], FALSE)
    /\ UNCHANGED <<config, attempt, retry_delay, spot_request_id, instance_id,
                   requests, instances>>
    /\ UNCHANGED <<inputVars, mainVars, fileVars>>

\* The calls _finalize_instance makes, any of which may raise: listing the
\* volumes, tagging a volume, loading the instance's attributes.
FinalizeCalls == {"describe_volumes", "create_tags_volume", "describe_instances"}

\* lines 279-302, called from line 191 (the result is returned) or from
\* lines 238-239 (the result gets the spot request id and the instance is
\* tagged next)
finalize_instance(i) ==
    /\ pc[i] = "finalize"
    /\ \/ /\ log' = Logged(i, "finalize_instance", instance_id[i], TRUE)
          /\ err' = err
          /\ IF config[i].spot_instance
             THEN /\ ret' = [ret EXCEPT ![i] =
                        [SuccessResult(config[i], instance_id[i], "spot")
                         EXCEPT !.spot_request_id = spot_request_id[i]]]
                  /\ pc' = [pc EXCEPT ![i] = "tag"]
                  /\ UNCHANGED <<running, finished>>
             ELSE Finish(i, SuccessResult(config[i], instance_id[i], "on-demand"))
       \/ \E c \in FinalizeCalls :
             /\ Raise(i, ApiError(c))
             /\ log' = Logged(i, c, instance_id[i], FALSE)
    /\ UNCHANGED <<config, attempt, retry_delay, spot_request_id, instance_id,
                   requests, instances>>
    /\ UNCHANGED <<inputVars, mainVars, fileVars>>

\* lines 242-252: tagging failure is logged, the result is returned anyway
create_tags(i) ==
    /\ pc[i] = "tag"
    /\ \E ok \in BOOLEAN : log' = Logged(i, "create_tags", instance_id[i], ok)
    /\ Finish(i, ret[i])
    /\ UNCHANGED <<config, attempt, retry_delay, spot_request_id, instance_id, err,
                   requests, instances>>
    /\ UNCHANGED <<inputVars, mainVars, fileVars>>

\* The remote effect of a cancellation that went through.
Cancelled(reqs, k) ==
    IF reqs[k] = "open" THEN [reqs EXCEPT ![k] = "cancelled"] ELSE reqs

\* lines 260-270: cancel the spot request the local names; a failure to
\* cancel is logged only
cancel_spot_instance_requests(i) ==
    /\ pc[i] = "cancel"
    /\ \E ok \in BOOLEAN :
         /\ log' = Logged(i, "cancel_spot_instance_requests", spot_request_id[i], ok)
         /\ requests' = [requests EXCEPT ![i] =
               IF ok THEN Cancelled(@, spot_request_id[i][3]) ELSE @]
    /\ AfterCancel(i, err[i])
    /\ UNCHANGED <<config, attempt, retry_delay, spot_request_id, instance_id,
                   instances>>
    /\ UNCHANGED <<inputVars, mainVars, fileVars>>

\* lines 272-277 and 198: sleep, double the delay, enter the next iteration
sleep(i) ==
    /\ pc[i] = "sleep"
    /\ IF SleepRaises(retry_delay[i])
       THEN /\ Except(i, SleepError)
            /\ UNCHANGED <<log, retry_delay, attempt>>
       ELSE /\ log' = Record(i, Call("sleep", attempt[i], NoId, TRUE, retry_delay[i]))
            /\ retry_delay' = [retry_delay EXCEPT ![i] = NextDelay(@)]
            /\ attempt' = [attempt EXCEPT ![i] = @ + 1]
            /\ LoopHead(i, attempt[i] + 1, config[i])
            /\ err' = err
    /\ UNCHANGED <<config, spot_request_id, instance_id, requests, instances>>
    /\ UNCHANGED <<inputVars, mainVars, fileVars>>

(***************************************************************************)
(* A direct call of provision_instance on one config.                      *)
(***************************************************************************)
Names == {NoName, <<"web">>}

AcquireConfigs ==
    {EC2InstanceConfig(n, "", {}, s, r, d) :
        n \in Names, s \in BOOLEAN, r \in 0..MaxRetries, d \in Delays}

IdleUnits(n, where) ==
    /\ pc = [i \in 1..n |-> where]
    /\ attempt = [i \in 1..n |-> 0]
    /\ retry_delay = [i \in 1..n |-> 0]
    /\ spot_request_id = [i \in 1..n |-> NoId]
    /\ instance_id = [i \in 1..n |-> NoId]
    /\ err = [i \in 1..n |-> NoErr]
    /\ ret = [i \in 1..n |-> NoneResult]
    /\ requests = [i \in 1..n |-> <<>>]
    /\ instances = [i \in 1..n |-> 0]
    /\ log = [i \in 1..n |-> <<>>]

IdlePool ==
    /\ submitted = 0
    /\ queue = <<>>
    /\ running = {}
    /\ finished = <<>>
    /\ pending = {}
    /\ early = {}
    /\ results = <<>>
    /\ cleanup_results = {}
    /\ report = NoReport
    /\ defaulted = <<>>

InitAcquire ==
    /\ op = "direct"
    /\ max_workers = 1
    /\ \E c \in AcquireConfigs : configs = <<c>>
    /\ instance_ids = <<>>
    /\ config = configs
    /\ IdleUnits(1, "start")
    /\ main = "direct"
    /\ IdlePool

NextAcquire ==
    \/ \E i \in Units : provision_instance(i)
    \/ \E i \in Units : request_spot_instances(i)
    \/ \E i \in Units : wait_spot_fulfilled(i)
    \/ \E i \in Units : describe_spot_instance_requests(i)
    \/ \E i \in Units : run_instances(i)
    \/ \E i \in Units : wait_instance_running(i)
    \/ \E i \in Units : finalize_instance(i)
    \/ \E i \in Units : create_tags(i)
    \/ \E i \in Units : cancel_spot_instance_requests(i)
    \/ \E i \in Units : sleep(i)

SpecAcquire == InitAcquire /\ [][NextAcquire]_vars

\* The same call on the configs that differ in what the retry loop reads:
\* the mode, the number of attempts allowed, and a delay that time.sleep
\* rejects, a zero delay or the default delay.
AttemptDelays == {-1, 0, DefaultRetryDelay}

AttemptConfigs ==
    {EC2InstanceConfig(<<"web">>, "", {}, s, r, d) :
        s \in BOOLEAN, r \in 0..MaxRetries, d \in AttemptDelays}

InitAttempts ==
    /\ op = "direct"
    /\ max_workers = 1
    /\ \E c \in AttemptConfigs : configs = <<c>>
    /\ instance_ids = <<>>
    /\ config = configs
    /\ IdleUnits(1, "start")
    /\ main = "direct"
    /\ IdlePool

SpecAttempts == InitAttempts /\ [][NextAcquire]_vars

(***************************************************************************)
(* terminate_instance, for unit i.                                         *)
(***************************************************************************)
\* faulty variant of TerminateResult: a failed termination is reported as a success
C9_TerminateAlwaysTrue(ok) == BoolResult(TRUE)

\* lines 390-396: True when terminate_instances returned, False when it raised
TerminateResult(ok) == BoolResult(ok)

terminate_instance(i) ==
    /\ pc[i] = "terminate"
    /\ \E ok \in BOOLEAN :
         /\ log' = Logged(i, "terminate_instances", instance_ids[i], ok)
         /\ Finish(i, TerminateResult(ok))
    /\ UNCHANGED <<config, attempt, retry_delay, spot_request_id, instance_id, err,
                   requests, instances>>
    /\ UNCHANGED <<inputVars, mainVars, fileVars>>

(***************************************************************************)
(* ThreadPoolExecutor(max_workers) and as_completed.                       *)
(***************************************************************************)
\* faulty variant of WorkerAvailable: a work item starts whether or not a
\* thread is free
C10_WorkerAlwaysAvailable == TRUE

\* faulty variant of WorkerAvailable: no work item starts while a running
\* unit sleeps in its backoff
C11_BlockedBySleeper ==
    /\ Cardinality(running) < max_workers
    /\ \A j \in running : pc[j] # "sleep"

\* a worker thread is free to take the next work item
WorkerAvailable == Cardinality(running) < max_workers

\* lines 320-323 and 412-415: executor.submit for the next element of the list
submit ==
    /\ main = "submit"
    /\ submitted < NumUnits
    /\ submitted' = submitted + 1
    /\ queue' = Append(queue, submitted + 1)
    /\ UNCHANGED <<main, running, finished, pending, early, results, cleanup_results>>
    /\ UNCHANGED <<pc, ret, acqVars, inputVars, fileVars>>

\* a worker thread takes the oldest work item and starts running it
worker_take(i) ==
    /\ queue # <<>>
    /\ i = Head(queue)
    /\ WorkerAvailable
    /\ queue' = Tail(queue)
    /\ running' = running \cup {i}
    /\ pc' = [pc EXCEPT ![i] = IF op = "cleanup" THEN "terminate" ELSE "start"]
    /\ UNCHANGED <<main, submitted, finished, pending, early, results, cleanup_results>>
    /\ UNCHANGED <<ret, acqVars, inputVars, fileVars>>

Done == {finished[k] : k \in DOMAIN finished}

\* lines 326 and 417: as_completed is entered once every unit is submitted;
\* it notes the futures that are already done
as_completed ==
    /\ main = "submit"
    /\ submitted = NumUnits
    /\ main' = "collect"
    /\ pending' = Units
    /\ early' = Done
    /\ UNCHANGED <<submitted, queue, running, finished, results, cleanup_results>>
    /\ UNCHANGED <<pc, ret, acqVars, inputVars, fileVars>>

Position(i) == CHOOSE k \in DOMAIN finished : finished[k] = i

\* faulty variant of Yields: any future that is done is yielded next
C19_YieldsAnyDone(i) == i \in pending /\ i \in Done

\* as_completed yields the futures that were done at its call in no fixed
\* order (they are kept in a set), then the others as they complete
Yields(i) ==
    /\ i \in pending
    /\ i \in Done
    /\ \/ i \in early
       \/ /\ early = {}
          /\ \A j \in pending \cap Done : Position(i) <= Position(j)

\* lines 327-344: the body of the collecting loop for one future.  The value
\* is appended before its 'status' is read; reading it from a value that is
\* no dict raises TypeError, which the except clause turns into one more,
\* failed, entry named after the caller's config.
Collected(rs, i) ==
    IF ret[i].kind = "dict"
    THEN Append(rs, ret[i])
    ELSE Append(Append(rs, ret[i]), FailedResult(configs[i], TypeError))

collect_provisioned(i) ==
    /\ op = "provision"
    /\ main = "collect"
    /\ Yields(i)
    /\ results' = Collected(results, i)
    /\ pending' = pending \ {i}
    /\ early' = early \ {i}
    /\ UNCHANGED <<main, submitted, queue, running, finished, cleanup_results>>
    /\ UNCHANGED <<pc, ret, acqVars, inputVars, fileVars>>

\* r['status'] can be read from every element of results
Summarisable(rs) == \A k \in DOMAIN rs : rs[k].kind = "dict"

\* lines 346-352: count the outcomes and return; counting raises TypeError
\* on an element that is no dict
summarise ==
    /\ op = "provision"
    /\ main = "collect"
    /\ pending = {}
    /\ main' = IF Summarisable(results) THEN "returned" ELSE "raised"
    /\ UNCHANGED <<submitted, queue, running, finished, pending, early, results,
                   cleanup_results>>
    /\ UNCHANGED <<pc, ret, acqVars, inputVars, fileVars>>

\* results[instance_id] = success
Stored(d, id, v) == {p \in d : p[1] # id} \cup {<<id, v>>}

\* lines 418-424
collect_terminated(i) ==
    /\ op = "cleanup"
    /\ main = "collect"
    /\ Yields(i)
    /\ cleanup_results' = Stored(cleanup_results, instance_ids[i], ret[i].status = "True")
    /\ pending' = pending \ {i}
    /\ early' = early \ {i}
    /\ UNCHANGED <<main, submitted, queue, running, finished, results>>
    /\ UNCHANGED <<pc, ret, acqVars, inputVars, fileVars>>

\* line 426
return_cleanup ==
    /\ op = "cleanup"
    /\ main = "collect"
    /\ pending = {}
    /\ main' = "returned"
    /\ UNCHANGED <<submitted, queue, running, finished, pending, early, results,
                   cleanup_results>>
    /\ UNCHANGED <<pc, ret, acqVars, inputVars, fileVars>>

(***************************************************************************)
(* provision_instances_parallel on a list of configs, or cleanup_instances *)
(* on a list of instance ids.                                              *)
(***************************************************************************)
\* The kinds of config a batch mixes: on-demand, spot with no attempt
\* allowed, spot with a single attempt.
BatchKinds == {<<FALSE, DefaultMaxRetries>>, <<TRUE, 0>>, <<TRUE, 1>>}

BatchConfig(k, kind) ==
    EC2InstanceConfig(<<"node", k>>, "", {}, kind[1], kind[2], DefaultRetryDelay)

\* lists of n configs with pairwise distinct names
BatchesOf(n) ==
    {[k \in 1..n |-> BatchConfig(k, f[k])] : f \in [1..n -> BatchKinds]}

Batches == UNION {BatchesOf(n) : n \in 0..MaxSpecs}

IdPool == {<<"i", k, 1>> : k \in 1..MaxIds}

\* lists of pairwise distinct instance ids
IdLists ==
    UNION {{f \in [1..n -> IdPool] : \A a, b \in 1..n : f[a] = f[b] => a = b} :
              n \in 0..MaxIds}

Init ==
    /\ max_workers \in 1..MaxWorkers
    /\ \/ /\ op = "provision"
          /\ configs \in Batches
          /\ instance_ids = <<>>
       \/ /\ op = "cleanup"
          /\ configs = <<>>
          /\ instance_ids \in IdLists
    /\ config = configs
    /\ IdleUnits(NumUnits, "idle")
    /\ main = "submit"
    /\ IdlePool

\* A config of a batch allows at most one attempt (BatchKinds), so no unit
\* of a batch reaches the backoff sleep; the retry loop is run by NextAcquire.
Next ==
    \/ submit
    \/ as_completed
    \/ \E i \in Units : worker_take(i)
    \/ \E i \in Units : provision_instance(i)
    \/ \E i \in Units : request_spot_instances(i)
    \/ \E i \in Units : wait_spot_fulfilled(i)
    \/ \E i \in Units : describe_spot_instance_requests(i)
    \/ \E i \in Units : run_instances(i)
    \/ \E i \in Units : wait_instance_running(i)
    \/ \E i \in Units : finalize_instance(i)
    \/ \E i \in Units : create_tags(i)
    \/ \E i \in Units : cancel_spot_instance_requests(i)
    \/ \E i \in Units : terminate_instance(i)
    \/ \E i \in Units : collect_provisioned(i)
    \/ summarise
    \/ \E i \in Units : collect_terminated(i)
    \/ return_cleanup

Spec == Init /\ [][Next]_vars

\* The same under fair scheduling: the threads of the pool and the main
\* thread keep being scheduled and every external call returns or raises, so
\* a step that is possible is eventually taken.
FairSpec == Init /\ [][Next]_vars /\ WF_vars(Next)

(***************************************************************************)
(* provision_instances_parallel on a batch with a retrying unit.           *)
(***************************************************************************)
\* The first config is a spot config allowed two attempts, with the backoff
\* sleep between them; the others are on-demand.
RetryKind(k) == IF k = 1 THEN <<TRUE, 2>> ELSE <<FALSE, DefaultMaxRetries>>

RetryBatches == {[k \in 1..n |-> BatchConfig(k, RetryKind(k))] : n \in 1..MaxSpecs}

InitRetry ==
    /\ max_workers \in 1..MaxWorkers
    /\ op = "provision"
    /\ configs \in RetryBatches
    /\ instance_ids = <<>>
    /\ config = configs
    /\ IdleUnits(NumUnits, "idle")
    /\ main = "submit"
    /\ IdlePool

\* one step of the run of unit i, on the worker thread that took it
UnitStep(i) ==
    \/ provision_instance(i)
    \/ request_spot_instances(i)
    \/ wait_spot_fulfilled(i)
    \/ describe_spot_instance_requests(i)
    \/ run_instances(i)
    \/ wait_instance_running(i)
    \/ finalize_instance(i)
    \/ create_tags(i)
    \/ cancel_spot_instance_requests(i)
    \/ sleep(i)

NextRetry ==
    \/ submit
    \/ as_completed
    \/ \E i \in Units : worker_take(i)
    \/ \E i \in Units : UnitStep(i)
    \/ \E i \in Units : collect_provisioned(i)
    \/ summarise

SpecRetry == InitRetry /\ [][NextRetry]_vars

(***************************************************************************)
(* _set_defaults applied to a config, and again to what it returned.       *)
(***************************************************************************)
Images == {"", "ami-custom"}

TagSets == {{}, {<<"Team", "infra">>}}

DefaultsConfigs ==
    {EC2InstanceConfig(n, im, tg, s, r, d) :
        n \in Names, im \in Images, tg \in TagSets, s \in BOOLEAN,
        r \in 0..MaxRetries, d \in Delays}

InitDefaults ==
    /\ op = "defaults"
    /\ max_workers = 1
    /\ \E c \in DefaultsConfigs : configs = <<c>>
    /\ instance_ids = <<>>
    /\ config = configs
    /\ IdleUnits(1, "idle")
    /\ main = "direct"
    /\ IdlePool

\* the argument of the next application: the caller's config, then the
\* config the last application returned
NextArgument == IF defaulted = <<>> THEN configs[1] ELSE defaulted[Len(defaulted)]

\* lines 354-378
apply_set_defaults ==
    /\ op = "defaults"
    /\ Len(defaulted) < MaxApplications
    /\ \E t \in Times :
         LET d == set_defaults(NextArgument, t) IN
         /\ defaulted' = Append(defaulted, d)
         /\ configs' = IF defaulted = <<>>
                       THEN [configs EXCEPT ![1] = CallerConfig(@, d)]
                       ELSE configs
    /\ UNCHANGED <<op, max_workers, instance_ids, report, mainVars>>
    /\ UNCHANGED <<pc, ret, acqVars, running, finished>>

NextDefaults == apply_set_defaults

SpecDefaults == InitDefaults /\ [][NextDefaults]_vars

(***************************************************************************)
(* main(): a provisioning run that saves its report, then a run with       *)
(* --cleanup over that report.                                             *)
(***************************************************************************)
\* batches of on-demand configs
ReportBatches ==
    {[k \in 1..n |-> BatchConfig(k, <<FALSE, DefaultMaxRetries>>)] : n \in 0..MaxSpecs}

InitReport ==
    /\ max_workers \in 1..MaxWorkers
    /\ op = "provision"
    /\ configs \in ReportBatches
    /\ instance_ids = <<>>
    /\ config = configs
    /\ IdleUnits(NumUnits, "idle")
    /\ main = "submit"
    /\ IdlePool

\* lines 555-557: json.dump(results) once provision_instances_parallel has
\* returned; when it raised, main() exits at line 561 and writes no file
save_report ==
    /\ op = "provision"
    /\ main = "returned"
    /\ report' = results
    /\ main' = "saved"
    /\ UNCHANGED <<submitted, queue, running, finished, pending, early, results,
                   cleanup_results, defaulted>>
    /\ UNCHANGED <<pc, ret, acqVars, inputVars>>

IsSuccess(r) == r.status = "success"

\* faulty variant of SuccessIds: the ids of all entries, whatever their status
C20_AllIds(rs) == [k \in DOMAIN rs |-> rs[k].instance_id]

\* line 511: [r['instance_id'] for r in previous_results if r['status'] == 'success']
SuccessIds(rs) ==
    LET S == SelectSeq(rs, IsSuccess) IN [k \in DOMAIN S |-> S[k].instance_id]

\* lines 501-519: the run with --cleanup reads the report and hands the ids
\* of its success entries to cleanup_instances, if there is any
start_cleanup ==
    /\ op = "provision"
    /\ main = "saved"
    /\ LET ids == SuccessIds(report) IN
       /\ instance_ids' = ids
       /\ main' = IF ids = <<>> THEN "nothing to clean up" ELSE "submit"
       /\ pc' = [i \in DOMAIN ids |-> "idle"]
       /\ attempt' = [i \in DOMAIN ids |-> 0]
       /\ retry_delay' = [i \in DOMAIN ids |-> 0]
       /\ spot_request_id' = [i \in DOMAIN ids |-> NoId]
       /\ instance_id' = [i \in DOMAIN ids |-> NoId]
       /\ err' = [i \in DOMAIN ids |-> NoErr]
       /\ ret' = [i \in DOMAIN ids |-> NoneResult]
       /\ requests' = [i \in DOMAIN ids |-> <<>>]
       /\ instances' = [i \in DOMAIN ids |-> 0]
       /\ log' = [i \in DOMAIN ids |-> <<>>]
    /\ op' = "cleanup"
    /\ max_workers' \in 1..MaxWorkers
    /\ configs' = <<>>
    /\ config' = <<>>
    /\ submitted' = 0
    /\ queue' = <<>>
    /\ running' = {}
    /\ finished' = <<>>
    /\ pending' = {}
    /\ early' = {}
    /\ results' = <<>>
    /\ cleanup_results' = {}
    /\ UNCHANGED <<report, defaulted>>

NextReport ==
    \/ submit
    \/ as_completed
    \/ \E i \in Units : worker_take(i)
    \/ \E i \in Units : UnitStep(i)
    \/ \E i \in Units : collect_provisioned(i)
    \/ summarise
    \/ save_report
    \/ start_cleanup
    \/ \E i \in Units : terminate_instance(i)
    \/ \E i \in Units : collect_terminated(i)
    \/ return_cleanup

SpecReport == InitReport /\ [][NextReport]_vars

(***************************************************************************)
(* Reading the record of external calls.                                   *)
(***************************************************************************)
CallsOf(i, name) == {k \in DOMAIN log[i] : log[i][k].call = name}

NumCalls(i, name) == Cardinality(CallsOf(i, name))

IsSleep(e) == e.call = "sleep"

\* the delays unit i slept, in order
Sleeps(i) == SelectSeq(log[i], IsSleep)

\* the spot request ids unit i obtained
ObtainedIds(i) ==
    {log[i][k].id : k \in {j \in CallsOf(i, "request_spot_instances") : log[i][j].ok}}

\* the attempt during which id was obtained
AttemptOf(i, id) ==
    log[i][CHOOSE k \in CallsOf(i, "request_spot_instances") : log[i][k].id = id].attempt

CancelsOf(i, id) ==
    {k \in CallsOf(i, "cancel_spot_instance_requests") : log[i][k].id = id}

FailedCancels(i) ==
    {k \in CallsOf(i, "cancel_spot_instance_requests") : ~log[i][k].ok}

\* spot requests of unit i that are issued and neither fulfilled nor cancelled
Outstanding(i) == {k \in DOMAIN requests[i] : requests[i][k] = "open"}

Returned(i) == pc[i] = "done"

\* attempt a of unit i failed and its except clause is past the cancellation
FailureHandled(i, a) ==
    \/ attempt[i] > a
    \/ /\ attempt[i] = a
       /\ \/ pc[i] = "sleep"
          \/ Returned(i) /\ ret[i].status = "failed"

Spot(i) == configs[i].spot_instance

\* the last call of unit i that raised into the attempt's except clause
LastFailure(i) ==
    LET F == {k \in DOMAIN log[i] :
                 ~log[i][k].ok /\ log[i][k].call # "cancel_spot_instance_requests"}
    IN log[i][CHOOSE k \in F : \A j \in F : j <= k]

(***************************************************************************)
(* C2: provision_instance always returns a result whose status is          *)
(* 'success' or 'failed', and a failed result carries the config's name    *)
(* and the error text.                                                     *)
(***************************************************************************)
C2_AlwaysReturnsResult ==
    \A i \in Units :
        Returned(i) =>
            /\ ret[i].kind = "dict"
            /\ ret[i].status \in {"success", "failed"}
            /\ ret[i].name = config[i].name
            /\ ret[i].status = "failed" => ret[i].error = err[i]

(***************************************************************************)
(* C3: for every failed attempt that obtained a spot request id, exactly   *)
(* one cancellation call is made for that id, before the next attempt and  *)
(* before the acquisition returns; no id is cancelled more than once.      *)
(***************************************************************************)
C3_ExactlyOneCancelPerFailedRequest ==
    \A i \in Units : \A id \in ObtainedIds(i) :
        /\ Cardinality(CancelsOf(i, id)) <= 1
        /\ FailureHandled(i, AttemptOf(i, id)) => Cardinality(CancelsOf(i, id)) = 1

(***************************************************************************)
(* C4 as claimed: at most one spot request of an acquisition is            *)
(* outstanding at any time, also when a cancellation call fails.           *)
(***************************************************************************)
C4_AtMostOneOutstanding ==
    \A i \in Units : Cardinality(Outstanding(i)) <= 1

(***************************************************************************)
(* C4 amended: the number of outstanding spot requests of an acquisition   *)
(* is at most one more than the number of its cancellation calls that      *)
(* failed; while no cancellation call has failed, at most one request is   *)
(* outstanding.                                                            *)
(***************************************************************************)
C4_OutstandingBoundedByFailedCancels ==
    \A i \in Units :
        Cardinality(Outstanding(i)) <= 1 + Cardinality(FailedCancels(i))

C4_Witness ==
    \E i \in Units :
        /\ Cardinality(Outstanding(i)) = 2
        /\ Cardinality(FailedCancels(i)) = 1

(***************************************************************************)
(* C5 as claimed: for every configured initial delay the delays slept are  *)
(* non-decreasing and at most 120, the first is the configured delay and   *)
(* each later one is the previous one doubled, capped at 120.              *)
(***************************************************************************)
DoublingFrom(i) ==
    LET s == Sleeps(i) IN
    /\ Len(s) >= 1 => s[1].delay = configs[i].spot_retry_delay
    /\ \A k \in 2..Len(s) : s[k].delay = Min(2 * s[k - 1].delay, BackoffCap)

CappedAndMonotone(i) ==
    LET s == Sleeps(i) IN
    /\ \A k \in 1..Len(s) : s[k].delay <= BackoffCap
    /\ \A k \in 2..Len(s) : s[k - 1].delay <= s[k].delay

C5_BackoffAsClaimed ==
    \A i \in Units : DoublingFrom(i) /\ CappedAndMonotone(i)

(***************************************************************************)
(* C5 amended: the first delay slept is the configured initial delay and   *)
(* each later one is the previous one doubled, capped at 120; when the     *)
(* configured initial delay is at most 120 the delays slept are also       *)
(* non-decreasing and at most 120.                                         *)
(***************************************************************************)
C5_BackoffDoublesWithCap ==
    \A i \in Units :
        /\ DoublingFrom(i)
        /\ configs[i].spot_retry_delay <= BackoffCap => CappedAndMonotone(i)

C5_Witness ==
    \E i \in Units :
        /\ Len(Sleeps(i)) >= 2
        /\ Sleeps(i)[1].delay = 100
        /\ Sleeps(i)[2].delay = BackoffCap

(***************************************************************************)
(* C6: a spot acquisition issues at most max_retries spot requests, and    *)
(* none after an attempt reached a success result: the last request issued *)
(* is the one the success result names.                                    *)
(***************************************************************************)
C6_AtMostMaxRetriesRequests ==
    \A i \in Units :
        /\ NumCalls(i, "request_spot_instances") <= configs[i].spot_max_retries
        /\ ret[i].status = "success" /\ Spot(i) =>
              /\ pc[i] \in {"tag", "done"}
              /\ LET last == log[i][CHOOSE k \in CallsOf(i, "request_spot_instances") :
                                 \A j \in CallsOf(i, "request_spot_instances") : j <= k]
                 IN last.id = ret[i].spot_request_id

C6_Witness ==
    \E i \in Units :
        /\ Returned(i)
        /\ ret[i].status = "success"
        /\ NumCalls(i, "request_spot_instances") = 2
        /\ configs[i].spot_max_retries = 3

(***************************************************************************)
(* C7: a spot acquisition returns a failed result only after exactly       *)
(* max_retries attempts, and the error names that number of attempts and   *)
(* the last underlying error.                                              *)
(***************************************************************************)
C7_FailsOnlyAfterAllAttempts ==
    \A i \in Units :
        Spot(i) /\ Returned(i) /\ ret[i].status = "failed" =>
            /\ NumCalls(i, "request_spot_instances") = configs[i].spot_max_retries
            /\ ret[i].error.kind = "AllAttemptsFailed"
            /\ ret[i].error.attempts = configs[i].spot_max_retries
            /\ ret[i].error.last = LastFailure(i).call

(***************************************************************************)
(* C8: an on-demand acquisition makes exactly one allocation call, never   *)
(* sleeps, never cancels, never requests a spot instance, and returns a    *)
(* failed result as soon as any of its calls fails.                        *)
(***************************************************************************)
C8_OnDemandNeverRetries ==
    \A i \in Units :
        ~Spot(i) =>
            /\ NumCalls(i, "run_instances") <= 1
            /\ NumCalls(i, "sleep") = 0
            /\ NumCalls(i, "cancel_spot_instance_requests") = 0
            /\ NumCalls(i, "request_spot_instances") = 0
            /\ \A k \in DOMAIN log[i] : ~log[i][k].ok => k = Len(log[i])
            /\ Returned(i) =>
                  /\ NumCalls(i, "run_instances") = 1
                  /\ ret[i].status = "failed" <=> ~log[i][Len(log[i])].ok

C8_Witness ==
    \E i \in Units :
        /\ ~Spot(i)
        /\ Returned(i)
        /\ ret[i].status = "failed"
        /\ Len(log[i]) = 2
        /\ ~log[i][2].ok

(***************************************************************************)
(* C1: provision_instances_parallel returns, and returns exactly one       *)
(* result per config of its input, each result named after one config.     *)
(***************************************************************************)
C1_OneResultPerSpec ==
    op = "provision" =>
        /\ main # "raised"
        /\ main = "returned" =>
              /\ Len(results) = Len(configs)
              /\ \A i \in Units :
                    Cardinality({k \in DOMAIN results :
                                    results[k].name = configs[i].name}) = 1

(***************************************************************************)
(* C9: cleanup_instances never raises and returns a mapping with exactly   *)
(* one entry per submitted instance id, true exactly when the termination  *)
(* call for that id succeeded.                                             *)
(***************************************************************************)
C9_CleanupMapsEveryId ==
    op = "cleanup" =>
        /\ main # "raised"
        /\ main = "returned" =>
              /\ Cardinality(cleanup_results) = Len(instance_ids)
              /\ \A i \in Units :
                    <<instance_ids[i], log[i][1].ok>> \in cleanup_results

C9_Witness ==
    /\ op = "cleanup"
    /\ main = "returned"
    /\ \E a, b \in Units :
          /\ <<instance_ids[a], TRUE>> \in cleanup_results
          /\ <<instance_ids[b], FALSE>> \in cleanup_results

(***************************************************************************)
(* C10: at most max_workers units of work (acquisitions or terminations)   *)
(* execute at the same time, and a unit still in the queue has not         *)
(* started.                                                                *)
(***************************************************************************)
Executing == {i \in Units : pc[i] \notin {"idle", "done"}}

C10_AtMostMaxWorkersExecuting ==
    /\ Cardinality(Executing) <= max_workers
    /\ \A k \in DOMAIN queue : pc[queue[k]] = "idle"

C10_Witness ==
    /\ Cardinality(Executing) = max_workers
    /\ queue # <<>>
    /\ \E i \in Executing : pc[i] \in {"sleep", "wait_running", "terminate"}

(***************************************************************************)
(* C11: independence of the runs of a batch.                               *)
(***************************************************************************)
\* the units that handle a failed attempt or sleep in the backoff
Retrying == {j \in Units : pc[j] \in {"cancel", "sleep"}}

\* C11 as claimed: a run is never blocked by another one; in particular,
\* while some unit handles a failure or sleeps, every started unit can take
\* its next step and the oldest queued unit can start.
C11_NeverBlockedByAnother ==
    Retrying # {} =>
        /\ \A i \in Executing : ENABLED UnitStep(i)
        /\ queue # <<>> => ENABLED worker_take(Head(queue))

\* a step of one unit leaves the position and the result of the others alone
OneUnitMoves ==
    \A i \in Units : pc'[i] # pc[i] =>
        \A j \in Units \ {i} : pc'[j] = pc[j] /\ ret'[j] = ret[j]

\* C11, amended: a started unit can always take its next step and no step
\* changes another unit's position or result (no run is blocked or cancelled
\* by another); the oldest queued unit can start whenever fewer than
\* max_workers units are executing, so that a start is delayed only by a
\* full pool, and never when the batch is no larger than the pool.
C11_DelayedOnlyByFullPool ==
    /\ [](\A i \in Executing : ENABLED UnitStep(i))
    /\ [](queue # <<>> /\ Cardinality(Executing) < max_workers
             => ENABLED worker_take(Head(queue)))
    /\ [](queue # <<>> /\ NumUnits <= max_workers
             => ENABLED worker_take(Head(queue)))
    /\ [][OneUnitMoves]_vars

\* one unit sleeps in its backoff while another one, started, goes on
C11_Witness ==
    \E j \in Units : /\ pc[j] = "sleep"
                     /\ \E i \in Executing \ {j} : ENABLED UnitStep(i)

(***************************************************************************)
(* C12: failure of a tagging call.                                         *)
(***************************************************************************)
\* the failed tagging calls of unit i: of the instance (line 243) or of one
\* of its volumes (line 286)
FailedTaggings(i) ==
    {k \in DOMAIN log[i] : /\ log[i][k].call \in {"create_tags", "create_tags_volume"}
                           /\ ~log[i][k].ok}

\* C12: once the instance is running, a failed tagging call is not fatal: it
\* is followed by no cancellation, sleep or new request, and the acquisition
\* returns a success result.
C12_TaggingFailureNotFatal ==
    \A i \in Units : \A k \in FailedTaggings(i) :
        /\ \A j \in DOMAIN log[i] :
              j > k => log[i][j].call \notin {"cancel_spot_instance_requests",
                                              "sleep", "request_spot_instances"}
        /\ pc[i] \notin {"cancel", "sleep", "request"}
        /\ Returned(i) => ret[i].status = "success"

(***************************************************************************)
(* C13: a unit that hands over no well-formed result.                      *)
(***************************************************************************)
\* the units whose future the collecting loop has consumed
Consumed == IF main = "submit" THEN {} ELSE Units \ pending

\* the entries of `results` recorded under the name of unit i's config
EntriesOf(i) == {k \in DOMAIN results : results[k].name = configs[i].name}

\* C13: when a unit hands over a value that cannot be read as a result, the
\* collecting loop records exactly one entry for it, a failed one, next to
\* one entry for each sibling consumed so far, and
\* provision_instances_parallel returns normally.
C13_OneFailedEntryForMalformed ==
    op = "provision" =>
        /\ main # "raised"
        /\ (\E i \in Consumed : ret[i].kind # "dict") =>
              /\ Len(results) = Cardinality(Consumed)
              /\ \A i \in Consumed :
                    /\ Cardinality(EntriesOf(i)) = 1
                    /\ ret[i].kind # "dict" =>
                          \A k \in EntriesOf(i) : results[k].status = "failed"

(***************************************************************************)
(* C14: termination under fair scheduling.                                 *)
(***************************************************************************)
\* every unit of the batch has returned a success or a failed result
AllTerminal ==
    \A i \in Units : Returned(i) /\ ret[i].kind = "dict"
                                 /\ ret[i].status \in {"success", "failed"}

\* C14: under fair scheduling every acquisition of a batch eventually ends
\* in success or failed, and provision_instances_parallel eventually returns
\* with one result per spec.
C14_EventuallyReturns ==
    op = "provision" =>
        <>(main = "returned" /\ AllTerminal /\ Len(results) = NumUnits)

(***************************************************************************)
(* C15: _set_defaults is idempotent.                                       *)
(***************************************************************************)
\* name, image and tags are all provided
FullySpecified(c) == c.name # NoName /\ c.image_id # "" /\ c.tags # {}

\* C15: applying _set_defaults to what it returned returns an equal config,
\* and applying it to a config whose name, image and tags are provided
\* returns a config equal to its argument.
C15_SetDefaultsIdempotent ==
    /\ \A k \in 2..Len(defaulted) : defaulted[k] = defaulted[k - 1]
    /\ (defaulted # <<>> /\ FullySpecified(configs[1])) => defaulted[1] = configs[1]

\* applied twice to a config that lacked a name
C15_Witness ==
    /\ Len(defaulted) >= 2
    /\ configs[1].name = NoName
    /\ defaulted[1].name # NoName

(***************************************************************************)
(* C16: the caller's configs are left as they were.                        *)
(***************************************************************************)
\* C16: no step of a batch, _set_defaults and the whole of
\* provision_instance included, changes a field of a config the caller
\* handed to provision_instances_parallel.
C16_CallerConfigsUnchanged == [][configs' = configs]_vars

\* the batch has returned and a unit ran on a config with defaults filled in
C16_Witness ==
    /\ op = "provision"
    /\ main = "returned"
    /\ \E i \in Units : Returned(i) /\ config[i] # configs[i]

(***************************************************************************)
(* C17: the cancellation names the request of the failed attempt.          *)
(***************************************************************************)
\* C17: a cancellation issued while the failure of attempt k is handled
\* targets a spot request id obtained during attempt k; an attempt that
\* obtained no id issues no cancellation.
C17_CancelTargetsOwnAttempt ==
    \A i \in Units : \A k \in CallsOf(i, "cancel_spot_instance_requests") :
        /\ log[i][k].id \in ObtainedIds(i)
        /\ AttemptOf(i, log[i][k].id) = log[i][k].attempt

(***************************************************************************)
(* C18: the order of the steps of an acquisition.                          *)
(***************************************************************************)
\* call k of unit i directly follows a successful call `name` of the same
\* attempt
Follows(i, k, name) ==
    /\ k > 1
    /\ log[i][k - 1].call = name
    /\ log[i][k - 1].ok
    /\ log[i][k - 1].attempt = log[i][k].attempt

\* the calls of _finalize_instance: one that raised, or all of them
Finalizing == FinalizeCalls \cup {"finalize_instance"}

\* C18: the readiness wait comes only after, in spot mode, the request of
\* the same attempt was issued, fulfilled and its instance id read back, and
\* in on-demand mode the single run_instances call; finalizing comes only
\* after the readiness wait returned; the post-hoc tagging and a success
\* result come only after finalizing completed.
C18_StepsInOrder ==
    \A i \in Units :
        /\ \A k \in DOMAIN log[i] :
              /\ log[i][k].call = "wait_instance_running" =>
                    IF Spot(i)
                    THEN /\ Follows(i, k, "describe_spot_instance_requests")
                         /\ Follows(i, k - 1, "wait_spot_fulfilled")
                         /\ Follows(i, k - 2, "request_spot_instances")
                    ELSE /\ k = 2
                         /\ Follows(i, k, "run_instances")
              /\ log[i][k].call \in Finalizing => Follows(i, k, "wait_instance_running")
              /\ log[i][k].call = "create_tags" => Follows(i, k, "finalize_instance")
        /\ (Returned(i) /\ ret[i].status = "success") =>
              \E k \in CallsOf(i, "finalize_instance") :
                  /\ log[i][k].ok
                  /\ log[i][k].id = ret[i].instance_id
                  /\ k >= Len(log[i]) - 1

\* a spot acquisition that succeeded on its second attempt
C18_Witness ==
    \E i \in Units : /\ Spot(i)
                     /\ Returned(i)
                     /\ ret[i].status = "success"
                     /\ attempt[i] = 1

(***************************************************************************)
(* C19: the order of the results of a batch.                               *)
(***************************************************************************)
\* where the result of a consumed unit stands in `results`
ResultIndex(i) == CHOOSE k \in EntriesOf(i) : TRUE

\* the consumed units that returned a success or a failed result
ConsumedResults == {i \in Consumed : ret[i].kind = "dict"}

\* C19 as claimed: the results stand in completion order, whenever the runs
\* completed: if unit a completed before unit b, the result of a precedes
\* the result of b.
C19_ResultsInCompletionOrder ==
    op = "provision" =>
        \A a, b \in ConsumedResults :
            Position(a) < Position(b) => ResultIndex(a) < ResultIndex(b)

\* the collecting loop consumes the future of unit i in this step
Consumes(i) == i \in pending /\ i \notin pending'

\* C19, amended: a future is consumed while one that completed before it is
\* still unconsumed only if it was already done when as_completed was
\* entered; the futures that complete later are consumed after all of
\* those, in completion order.
C19_CompletionOrderAfterEarly ==
    [][\A i \in Units :
          (op = "provision" /\ Consumes(i)) =>
              \/ i \in early
              \/ /\ early = {}
                 /\ \A j \in Done : Position(j) < Position(i) => j \notin pending]_vars

\* the futures found done have been consumed and a later one is next
C19_Witness ==
    /\ op = "provision"
    /\ main = "collect"
    /\ early = {}
    /\ results # <<>>
    /\ pending \cap Done # {}

(***************************************************************************)
(* C20: the cleanup pass over the saved report.                            *)
(***************************************************************************)
\* the instance ids of the report's success entries
ReportedSuccesses ==
    {report[k].instance_id : k \in {j \in DOMAIN report : report[j].status = "success"}}

\* the instance ids terminate_instances was called with
TerminateCalls ==
    UNION {{log[i][k].id : k \in CallsOf(i, "terminate_instances")} : i \in Units}

\* C20: in the cleanup pass over the saved report of a batch, the ids handed
\* to cleanup_instances are the instance ids of the report's success entries:
\* no other id is submitted for termination and, once cleanup_instances has
\* returned, each of them has been.
C20_CleanupTargetsReportedSuccesses ==
    op = "cleanup" =>
        /\ {instance_ids[k] : k \in DOMAIN instance_ids} = ReportedSuccesses
        /\ TerminateCalls \subseteq ReportedSuccesses
        /\ main = "returned" => TerminateCalls = ReportedSuccesses

\* cleanup_instances has returned for a report with a success entry and a
\* failed one
C20_Witness ==
    /\ op = "cleanup"
    /\ main = "returned"
    /\ \E k \in DOMAIN report : report[k].status = "success"
    /\ \E k \in DOMAIN report : report[k].status = "failed"

(***************************************************************************)
(* C21: instances left behind by a failed acquisition.                     *)
(***************************************************************************)
\* call k of unit i launched an instance
IsLaunch(i, k) ==
    log[i][k].ok /\ log[i][k].call \in {"run_instances", "wait_spot_fulfilled"}

Launches(i) == {k \in DOMAIN log[i] : IsLaunch(i, k)}

\* call k of unit i failed its attempt after the instance of that attempt
\* was launched
IsPostLaunchFailure(i, k) ==
    /\ ~log[i][k].ok
    /\ log[i][k].call \notin {"cancel_spot_instance_requests", "create_tags"}
    /\ \E j \in 1..(k - 1) : IsLaunch(i, j) /\ log[i][j].attempt = log[i][k].attempt

\* unit i returned a failed result after it had launched an instance
FailedAfterLaunch(i) ==
    /\ Returned(i)
    /\ ret[i].kind = "dict"
    /\ ret[i].status = "failed"
    /\ \E k \in DOMAIN log[i] : IsPostLaunchFailure(i, k)

\* the acquisition, once returned, has never called terminate_instances,
\* so every instance it launched is still allocated; its failed result
\* names no instance and a cleanup pass over a report holding that result
\* selects no id
LeftBehind(i) ==
    Returned(i) =>
    /\ \A k \in DOMAIN log[i] : log[i][k].call # "terminate_instances"
    /\ instances[i] = Cardinality(Launches(i))
    /\ FailedAfterLaunch(i) =>
          /\ instances[i] >= 1
          /\ ret[i].instance_id = NoId
          /\ SuccessIds(<<ret[i]>>) = <<>>

\* at most max_retries instances are left allocated, one in on-demand mode
BoundedLeak(i) ==
    instances[i] <= IF Spot(i) THEN configs[i].spot_max_retries ELSE 1

\* failure k of unit i is followed by the request of the next attempt
FollowedByRequest(i, k) ==
    \E j \in (k + 1)..Len(log[i]) :
        /\ log[i][j].call = "request_spot_instances"
        /\ log[i][j].attempt = log[i][k].attempt + 1

\* C21 as claimed: the instances a failed acquisition launched stay
\* allocated and out of reach of the cleanup pass, at most max_retries of
\* them, and in spot mode each failure after the fulfilment is followed by a
\* new request.
C21_EveryLeakFollowedByRequest ==
    \A i \in Units :
        /\ LeftBehind(i)
        /\ BoundedLeak(i)
        /\ (Spot(i) /\ Returned(i)) =>
              \A k \in DOMAIN log[i] :
                  IsPostLaunchFailure(i, k) => FollowedByRequest(i, k)

\* C21, amended: as above, except that a failure after the fulfilment is
\* followed by a new request only when it is not the failure of the last
\* attempt allowed and the backoff sleep does not raise.
C21_LeakFollowedByRequestUnlessLast ==
    \A i \in Units :
        /\ LeftBehind(i)
        /\ BoundedLeak(i)
        /\ (Spot(i) /\ Returned(i)) =>
              \A k \in DOMAIN log[i] :
                  IsPostLaunchFailure(i, k) =>
                      IF /\ log[i][k].attempt < configs[i].spot_max_retries - 1
                         /\ ~SleepRaises(configs[i].spot_retry_delay)
                      THEN FollowedByRequest(i, k)
                      ELSE ~FollowedByRequest(i, k)

\* a spot acquisition failed and left as many instances as attempts allowed
C21_Witness ==
    \E i \in Units :
        /\ Spot(i)
        /\ FailedAfterLaunch(i)
        /\ configs[i].spot_max_retries >= 2
        /\ instances[i] = configs[i].spot_max_retries

(***************************************************************************)
(* C22: the backoff sleep occurs only between two attempts.                *)
(***************************************************************************)
\* call k of unit i is the call whose failure ended attempt a
EndsAttempt(i, k, a) ==
    /\ log[i][k].attempt = a
    /\ ~log[i][k].ok
    /\ log[i][k].call \notin {"cancel_spot_instance_requests", "create_tags"}

\* sleep k of unit i comes right after the cancellation step of the attempt
\* that failed: after the cancellation call if one was issued, else after
\* the call that failed
AfterCancellationStep(i, k) ==
    /\ k > 1
    /\ \/ /\ log[i][k - 1].call = "cancel_spot_instance_requests"
          /\ log[i][k - 1].attempt = log[i][k].attempt
          /\ k > 2
          /\ EndsAttempt(i, k - 2, log[i][k].attempt)
       \/ EndsAttempt(i, k - 1, log[i][k].attempt)

\* sleep k of unit i is followed by the request of the next attempt
BeforeNextRequest(i, k) ==
    IF k = Len(log[i])
    THEN pc[i] = "request" /\ attempt[i] = log[i][k].attempt + 1
    ELSE /\ log[i][k + 1].call = "request_spot_instances"
         /\ log[i][k + 1].attempt = log[i][k].attempt + 1

\* C22: in a spot acquisition every sleep comes after the cancellation step
\* of a failed attempt that is not the last one allowed and before the
\* request of the next attempt, once per failed attempt; an acquisition that
\* returns after k attempts, k >= 1, has slept k - 1 times.  The sleep just
\* taken is looked at in every state, the whole record once the acquisition
\* has returned.
C22_SleepsOnlyBetweenAttempts ==
    \A i \in Units : Spot(i) =>
        /\ Len(log[i]) >= 1 /\ log[i][Len(log[i])].call = "sleep" =>
              /\ AfterCancellationStep(i, Len(log[i]))
              /\ BeforeNextRequest(i, Len(log[i]))
              /\ log[i][Len(log[i])].attempt < configs[i].spot_max_retries - 1
        /\ Returned(i) =>
              /\ \A k \in CallsOf(i, "sleep") :
                    /\ AfterCancellationStep(i, k)
                    /\ BeforeNextRequest(i, k)
                    /\ log[i][k].attempt < configs[i].spot_max_retries - 1
                    /\ \A j \in CallsOf(i, "sleep") :
                          log[i][j].attempt = log[i][k].attempt => j = k
              /\ NumCalls(i, "request_spot_instances") >= 1 =>
                    Len(Sleeps(i)) = NumCalls(i, "request_spot_instances") - 1

\* a spot acquisition returned after three attempts and two sleeps
C22_Witness ==
    \E i \in Units :
        /\ Spot(i)
        /\ Returned(i)
        /\ NumCalls(i, "request_spot_instances") = 3
        /\ Len(Sleeps(i)) = 2

====
